---- MODULE Spec2Model ----
(***************************************************************************)
(* A model of rust-ltsv (src/ltsv.rs): the one-byte-lookahead LTSV parser  *)
(* (LTSVParser), the three reader entry points of LTSVReader and the       *)
(* writer of LTSVWriter.                                                   *)
(*                                                                         *)
(* A byte is its integer value; the end-of-stream sentinel of read_byte is *)
(* -1.  A ~str is the sequence of its bytes.  A Record (LinearMap) is the  *)
(* sequence of its (label, value) pairs; the order in which LinearMap      *)
(* iterates is not fixed by the program, so the writer may take any order. *)
(* The parser runs one loop iteration of the source per step; pc names     *)
(* the loop it is in.  pos counts the bytes taken from the reader so far,  *)
(* calls the calls of read_byte on it, cur is the field *self.cur of the   *)
(* parser.                                                                 *)
(***************************************************************************)
EXTENDS Integers, Sequences, FiniteSets, TLC

\* ---------------------------------------------------------------- bytes
NUL   == 0
HT    == 9
LF    == 10
CR    == 13
SP    == 32
COLON == 58
LA    == 97
EOS   == -1

\* Bound: a source text is made of at most MaxTok pieces (see Texts).
MaxTok == 4
\* Bound: how many times a text is made from one read before and read.
MaxTrips == 1

\* The bytes the source texts are drawn from: NUL, the whitespace TAB, LF, CR
\* and space, ':' and the label byte 'a'.  All are ASCII, so str::from_bytes
\* never fails on what the scans collect.
Bytes == {NUL, HT, LF, CR, SP, COLON, LA}

\* The pieces a source text is assembled from (the tests assemble theirs with
\* write_str calls): any single byte, or the field opening "a:".
Pieces == {<<b>> : b \in Bytes} \cup {<<LA, COLON>>}

RECURSIVE Texts(_)
Texts(n) ==
    IF n = 0 THEN {<<>>}
    ELSE LET S == Texts(n - 1) IN S \cup {s \o t : s \in S, t \in Pieces}

\* ------------------------------------------------------- byte classes
\* The label arm of the match in parse_field_label.
IsLabelByte(c) ==
    \/ c \in 48..57 \/ c \in 65..90 \/ c \in 97..122
    \/ c = 95 \/ c = 46 \/ c = 45

\* A value arm whose first range starts one byte early, at 0x00.
IsValueByte_from_zero(c) ==
    \/ c \in 0..8 \/ c = 11 \/ c = 12 \/ c \in 14..255

\* The value arm of the match in parse_field_value.
IsValueByte(c) ==
    \/ c \in 1..8 \/ c = 11 \/ c = 12 \/ c \in 14..255

\* char::is_whitespace(*self.cur as char): 0x09..0x0d, and the space
\* separators below 0x100 (0x20, 0xa0).  -1 cast to char is no whitespace.
is_whitespace(c) ==
    \/ c \in 9..13
    \/ c \in {32, 160}

\* ------------------------------------------------------------- reader
\* io::Reader::read_byte on a reader over the text rd of which n bytes are
\* already taken: the next byte, or -1 at the end of the text.
read_byte(rd, n) ==
    IF n < Len(rd) THEN [pos |-> n + 1, cur |-> rd[n + 1]]
    ELSE [pos |-> n, cur |-> EOS]

LTSVParser_new(rd) == read_byte(rd, 0)

eof(p) == p.cur = EOS

bump(rd, p) == IF ~eof(p) THEN read_byte(rd, p.pos) ELSE p

\* A bump without the eof test asks the reader every time.
bump_calls_unguarded(p) == 1

\* The calls of read_byte that bump makes: one, unless eof.
bump_calls(p) == IF ~eof(p) THEN 1 ELSE 0

\* An insert that leaves the value of a key already present alone.
insert_keep_first(rec, l, v) ==
    IF \E i \in 1..Len(rec) : rec[i][1] = l
      THEN rec
      ELSE Append(rec, <<l, v>>)

\* LinearMap::insert: the value of a key already present is replaced.
insert(rec, l, v) ==
    IF \E i \in 1..Len(rec) : rec[i][1] = l
      THEN [i \in 1..Len(rec) |-> IF rec[i][1] = l THEN <<l, v>> ELSE rec[i]]
      ELSE Append(rec, <<l, v>>)

\* ------------------------------------------------------- LTSVWriter
\* The orders in which record.each may hand out the n pairs of a record.
Orders(n) == {f \in [1..n -> 1..n] : \A i, j \in 1..n : f[i] = f[j] => i = j}

\* write_ltsv_record with record.each iterating in the order ord; the
\* argument i is the number of pairs already written.
RECURSIVE write_ltsv_record_loop(_, _, _)
write_ltsv_record_loop(rec, ord, i) ==
    IF i = Len(rec) THEN <<>>
    ELSE (IF i # 0 THEN <<HT>> ELSE <<>>)
         \o rec[ord[i + 1]][1] \o <<COLON>> \o rec[ord[i + 1]][2]
         \o write_ltsv_record_loop(rec, ord, i + 1)

\* A writer that forgets the is_first test and puts the TAB after every field.
write_ltsv_record_tab_after(rec, ord) ==
    IF Len(rec) = 0 THEN <<>>
    ELSE write_ltsv_record_loop(rec, ord, 0) \o <<HT>>

write_ltsv_record(rec, ord) == write_ltsv_record_loop(rec, ord, 0)

\* A write_ltsv that puts the '\n' between the records and none after the
\* last.
RECURSIVE write_ltsv_between(_, _)
write_ltsv_between(ltsv, i) ==
    IF i > Len(ltsv) THEN {<<>>}
    ELSE {write_ltsv_record(ltsv[i], ord)
            \o (IF i < Len(ltsv) THEN <<LF>> ELSE <<>>) \o rest :
            ord \in Orders(Len(ltsv[i])),
            rest \in write_ltsv_between(ltsv, i + 1)}

\* Every text write_ltsv may emit for the records ltsv[i..], one iteration
\* order per record.
RECURSIVE write_ltsv_from(_, _)
write_ltsv_from(ltsv, i) ==
    IF i > Len(ltsv) THEN {<<>>}
    ELSE {write_ltsv_record(ltsv[i], ord) \o <<LF>> \o rest :
            ord \in Orders(Len(ltsv[i])),
            rest \in write_ltsv_from(ltsv, i + 1)}

write_ltsv(ltsv) == write_ltsv_from(ltsv, 1)

\* ------------------------------------------------------------- state
VARIABLES
    text,      \* the bytes behind the reader (io::with_str_reader)
    pos,       \* how many of them the reader has handed out
    calls,     \* how many times read_byte was called on the reader
    op,        \* the entry point running on the reader, "idle" before
    pc,        \* where the parser is: top, skip, label, value, cr, trail,
               \* ret, rec, done (returned), failed (fail!)
    cur,       \* LTSVParser.cur
    label,     \* bytes of parse_field_label, then the label of the field
    value,     \* bytes of parse_field_value, then the value of the field
    delim,     \* the ParseDelimiter of the last ParseOk
    record,    \* record of parse_record
    records,   \* records of parse_ltsv
    doc,       \* what read_ltsv returned
    seen,      \* what the visitor f was called with, in order
    stopped,   \* the visitor returned false
    reason,    \* the message of fail!
    mark,      \* history of the field being parsed
    hist,      \* history of the fields parsed
    out,       \* the bytes in the writer (io::with_str_writer)
    prev,      \* the document of the previous reading of a related text
    how,       \* how text was made from the text read before
    trips,     \* how many times a text was made from an earlier one
    last       \* how the previous reading ended, and the fields it parsed

reader  == <<text, pos, calls>>
parser  == <<cur, label, value, delim, record, records>>
result  == <<doc, seen, stopped, reason>>
history == <<mark, hist>>
harness == <<out, prev, how, trips, last>>
vars == <<reader, op, pc, parser, result, history, harness>>

\* The history of one parsed field: where parse_field was entered, where its
\* label scan started, where its value scan stopped (the index of the
\* terminator byte, of the CR for CR LF, Len(text) + 1 at end of stream),
\* the delimiter parse_field_value reported (before the EOF re-check), and
\* the number of the record it went into (0 under each_ltsv_field).
NoMark == [entry |-> 0, lstart |-> 0, vstop |-> 0, raw |-> ""]

FieldHist(l, v, m, n) ==
    [label |-> l, value |-> v, entry |-> m.entry, lstart |-> m.lstart,
     vstop |-> m.vstop, raw |-> m.raw, rec |-> n]

\* The index in text of the byte in cur (Len(text) + 1 at end of stream).
At == IF cur = EOS THEN Len(text) + 1 ELSE pos

\* The fields of the history, in the order parse_field returned them.
Fields == [j \in 1..Len(hist) |-> <<hist[j].label, hist[j].value>>]

\* No reading before this one.
NoRun == [end |-> "", reason |-> "", fields |-> <<>>]

Fresh ==
    /\ pos = 0
    /\ calls = 0
    /\ op = "idle"
    /\ pc = "idle"
    /\ cur = EOS
    /\ label = <<>>
    /\ value = <<>>
    /\ delim = ""
    /\ record = <<>>
    /\ records = <<>>
    /\ doc = <<>>
    /\ seen = <<>>
    /\ stopped = FALSE
    /\ reason = ""
    /\ mark = NoMark
    /\ hist = <<>>

Init ==
    /\ text \in Texts(MaxTok)
    /\ Fresh
    /\ out = <<>>
    /\ prev = <<>>
    /\ how = "given"
    /\ trips = 0
    /\ last = NoRun

\* self.bump() as part of a step.
Bump ==
    /\ pos' = bump(text, [pos |-> pos, cur |-> cur]).pos
    /\ cur' = bump(text, [pos |-> pos, cur |-> cur]).cur
    /\ calls' = calls + bump_calls([pos |-> pos, cur |-> cur])

\* ---------------------------------------------------- entry points
\* LTSVParser::new(self), then the body of the entry point begins.
Enter(name) ==
    /\ op' = name
    /\ pos' = LTSVParser_new(text).pos
    /\ cur' = LTSVParser_new(text).cur
    /\ calls' = calls + 1
    /\ pc' = "top"
    /\ UNCHANGED <<text, label, value, delim, record, records, result,
                   history, harness>>

ReadLtsv ==
    /\ op = "idle"
    /\ Enter("read_ltsv")

EachLtsvRecord ==
    /\ op = "idle"
    /\ Enter("each_ltsv_record")

EachLtsvField ==
    /\ op = "idle"
    /\ Enter("each_ltsv_field")

\* parse_ltsv: the head of its loop calls parse_record, which makes a new
\* record and calls parse_field, which starts with skip_whitespaces.
ParseLtsvLoop ==
    /\ op = "read_ltsv" /\ pc = "top"
    /\ record' = <<>>
    /\ mark' = [NoMark EXCEPT !.entry = At]
    /\ pc' = "skip"
    /\ UNCHANGED <<reader, op, cur, label, value, delim, records, result,
                   hist, harness>>

\* An each_ltsv_record that loops as parse_ltsv does, without the eof test.
EachLtsvRecordLoop_no_eof_test ==
    /\ op = "each_ltsv_record" /\ pc = "top"
    /\ pc' = "skip"
    /\ record' = <<>>
    /\ mark' = [NoMark EXCEPT !.entry = At]
    /\ UNCHANGED <<reader, op, cur, label, value, delim, records, result,
                   hist, harness>>

\* each_ltsv_record: while !parser.eof() { parser.parse_record() ... }
EachLtsvRecordLoop ==
    /\ op = "each_ltsv_record" /\ pc = "top"
    /\ IF eof([pos |-> pos, cur |-> cur])
         THEN pc' = "done" /\ UNCHANGED <<record, mark>>
         ELSE /\ pc' = "skip"
              /\ record' = <<>>
              /\ mark' = [NoMark EXCEPT !.entry = At]
    /\ UNCHANGED <<reader, op, cur, label, value, delim, records, result,
                   hist, harness>>

\* An each_ltsv_field that takes the end of a line for the end of the input.
EachLtsvFieldLoop_stop_at_line ==
    /\ op = "each_ltsv_field" /\ pc = "top"
    /\ IF eof([pos |-> pos, cur |-> cur]) \/ delim = "NL"
         THEN pc' = "done" /\ UNCHANGED mark
         ELSE pc' = "skip" /\ mark' = [NoMark EXCEPT !.entry = At]
    /\ UNCHANGED <<reader, op, cur, label, value, delim, record, records,
                   result, hist, harness>>

\* each_ltsv_field: while !parser.eof() { parser.parse_field() ... }
EachLtsvFieldLoop ==
    /\ op = "each_ltsv_field" /\ pc = "top"
    /\ IF eof([pos |-> pos, cur |-> cur])
         THEN pc' = "done" /\ UNCHANGED mark
         ELSE pc' = "skip" /\ mark' = [NoMark EXCEPT !.entry = At]
    /\ UNCHANGED <<reader, op, cur, label, value, delim, record, records,
                   result, hist, harness>>

\* ------------------------------------------------------------- parser
\* A parse_ltsv that leaves its loop on a ParseError as it does on EOF, and
\* returns the records it has.
Propagate_break(msg) ==
    /\ pc' = "done"
    /\ reason' = ""
    /\ doc' = IF op = "read_ltsv" THEN records ELSE doc
    /\ UNCHANGED <<seen, stopped>>

\* A ParseError(reason) on its way out: parse_field, parse_record and
\* parse_ltsv hand it on, the entry point ends in fail!(reason).
Propagate(msg) ==
    /\ pc' = "failed"
    /\ reason' = msg
    /\ UNCHANGED <<doc, seen, stopped>>

\* A parse_field without the EOF re-check after the trailing whitespace.
SkipWhitespaces_no_recheck ==
    /\ pc \in {"skip", "trail"}
    /\ IF is_whitespace(cur)
         THEN /\ Bump
              /\ UNCHANGED <<pc, label, mark>>
         ELSE /\ UNCHANGED <<pos, calls, cur>>
              /\ IF pc = "skip"
                   THEN /\ pc' = "label"
                        /\ label' = <<>>
                        /\ mark' = [mark EXCEPT !.lstart = At]
                   ELSE /\ pc' = "ret"
                        /\ UNCHANGED <<label, mark>>
    /\ UNCHANGED <<text, op, value, delim, record, records, result, hist,
                   harness>>

\* A skip_whitespaces whose loop tests the byte and does not bump.
SkipWhitespaces_no_bump ==
    /\ pc \in {"skip", "trail"}
    /\ IF is_whitespace(cur)
         THEN UNCHANGED <<pos, calls, cur, pc, label, delim, mark>>
         ELSE /\ UNCHANGED <<pos, calls, cur>>
              /\ IF pc = "skip"
                   THEN /\ pc' = "label"
                        /\ label' = <<>>
                        /\ mark' = [mark EXCEPT !.lstart = At]
                        /\ UNCHANGED delim
                   ELSE /\ pc' = "ret"
                        /\ delim' = IF eof([pos |-> pos, cur |-> cur])
                                      THEN "EOF" ELSE delim
                        /\ UNCHANGED <<label, mark>>
    /\ UNCHANGED <<text, op, value, record, records, result, hist, harness>>

\* One iteration of the loop of skip_whitespaces, called at the start of
\* parse_field (pc = "skip") and after a terminator that is no TAB
\* (pc = "trail"); leaving the second, parse_field re-checks EOF.
SkipWhitespaces ==
    /\ pc \in {"skip", "trail"}
    /\ IF is_whitespace(cur)
         THEN /\ Bump
              /\ UNCHANGED <<pc, label, delim, mark>>
         ELSE /\ UNCHANGED <<pos, calls, cur>>
              /\ IF pc = "skip"
                   THEN /\ pc' = "label"
                        /\ label' = <<>>
                        /\ mark' = [mark EXCEPT !.lstart = At]
                        /\ UNCHANGED delim
                   ELSE /\ pc' = "ret"
                        /\ delim' = IF eof([pos |-> pos, cur |-> cur])
                                      THEN "EOF" ELSE delim
                        /\ UNCHANGED <<label, mark>>
    /\ UNCHANGED <<text, op, value, record, records, result, hist, harness>>

\* A parse_field_label that bumps past the offending byte before it reports
\* it.
ParseFieldLabel_bump_past ==
    /\ pc = "label"
    /\ IF IsLabelByte(cur)
         THEN /\ label' = Append(label, cur)
              /\ Bump
              /\ UNCHANGED <<pc, value, result>>
       ELSE IF cur = COLON /\ Len(label) = 0
         THEN /\ Propagate("label is empty")
              /\ UNCHANGED <<pos, calls, cur, label, value>>
       ELSE IF cur = COLON
         THEN /\ Bump
              /\ pc' = "value"
              /\ value' = <<>>
              /\ UNCHANGED <<label, result>>
       ELSE IF cur = EOS
         THEN /\ Propagate("EOF while parsing field label")
              /\ UNCHANGED <<pos, calls, cur, label, value>>
       ELSE /\ Bump
            /\ Propagate("invalid byte detected")
            /\ UNCHANGED <<label, value>>
    /\ UNCHANGED <<text, op, delim, record, records, history, harness>>

\* One iteration of the loop of parse_field_label; on ':' parse_field bumps
\* past it and calls parse_field_value.
ParseFieldLabel ==
    /\ pc = "label"
    /\ IF IsLabelByte(cur)
         THEN /\ label' = Append(label, cur)
              /\ Bump
              /\ UNCHANGED <<pc, value, result>>
       ELSE IF cur = COLON /\ Len(label) = 0
         THEN /\ Propagate("label is empty")
              /\ UNCHANGED <<pos, calls, cur, label, value>>
       ELSE IF cur = COLON
         THEN /\ Bump
              /\ pc' = "value"
              /\ value' = <<>>
              /\ UNCHANGED <<label, result>>
       ELSE IF cur = EOS
         THEN /\ Propagate("EOF while parsing field label")
              /\ UNCHANGED <<pos, calls, cur, label, value>>
       ELSE /\ Propagate("invalid byte detected")
            /\ UNCHANGED <<pos, calls, cur, label, value>>
    /\ UNCHANGED <<text, op, delim, record, records, history, harness>>

\* A parse_field that skips whitespace after every terminator, TAB too.
ValueOk_always_skip(d, p) ==
    /\ pos' = bump(text, p).pos
    /\ cur' = bump(text, p).cur
    /\ pc' = "trail"
    /\ delim' = d

\* A parse_field that re-checks EOF only after it has skipped whitespace.
ValueOk_no_recheck(d, p) ==
    /\ pos' = bump(text, p).pos
    /\ cur' = bump(text, p).cur
    /\ IF d # "TAB"
         THEN pc' = "trail" /\ delim' = d
         ELSE pc' = "ret" /\ delim' = d

\* parse_field on ParseOk(_, d, value): bump past the terminator, skip
\* whitespace unless d is TAB, re-check EOF.  p is the parser before the
\* bump; the action that uses ValueOk counts the calls of read_byte.
ValueOk(d, p) ==
    /\ pos' = bump(text, p).pos
    /\ cur' = bump(text, p).cur
    /\ IF d # "TAB"
         THEN pc' = "trail" /\ delim' = d
         ELSE /\ pc' = "ret"
              /\ delim' = IF eof(bump(text, p)) THEN "EOF" ELSE d

\* One iteration of the loop of parse_field_value.
ParseFieldValue ==
    /\ pc = "value"
    /\ IF IsValueByte(cur)
         THEN /\ value' = Append(value, cur)
              /\ Bump
              /\ UNCHANGED <<pc, delim, mark, result>>
       ELSE IF cur = CR
         THEN /\ pc' = "cr"
              /\ mark' = [mark EXCEPT !.vstop = At]
              /\ UNCHANGED <<pos, calls, cur, value, delim, result>>
       ELSE IF cur \in {LF, HT, EOS}
         THEN /\ ValueOk(CASE cur = LF -> "NL" [] cur = HT -> "TAB"
                           [] OTHER -> "EOF",
                         [pos |-> pos, cur |-> cur])
              /\ calls' = calls + bump_calls([pos |-> pos, cur |-> cur])
              /\ mark' = [mark EXCEPT
                            !.vstop = At,
                            !.raw = CASE cur = LF -> "NL" [] cur = HT -> "TAB"
                                      [] OTHER -> "EOF"]
              /\ UNCHANGED <<value, result>>
       ELSE /\ Propagate("invalid byte detected")
            /\ UNCHANGED <<pos, calls, cur, value, delim, mark>>
    /\ UNCHANGED <<text, op, label, record, records, hist, harness>>

\* A consume_forward_LF that takes whatever byte follows the CR.
ConsumeForwardLF_unchecked ==
    /\ pc = "cr"
    /\ ValueOk("NL", bump(text, [pos |-> pos, cur |-> cur]))
    /\ calls' = calls + 2
    /\ mark' = [mark EXCEPT !.raw = "NL"]
    /\ UNCHANGED <<text, op, label, value, record, records, result, hist,
                   harness>>

\* consume_forward_LF: bump past the CR; the next byte must be LF.
ConsumeForwardLF ==
    /\ pc = "cr"
    /\ IF bump(text, [pos |-> pos, cur |-> cur]).cur # LF
         THEN /\ Bump
              /\ Propagate("CR detected, but not provided with LF")
              /\ UNCHANGED <<delim, mark>>
         ELSE /\ ValueOk("NL", bump(text, [pos |-> pos, cur |-> cur]))
              /\ calls' = calls + bump_calls([pos |-> pos, cur |-> cur])
                           + bump_calls(bump(text, [pos |-> pos, cur |-> cur]))
              /\ mark' = [mark EXCEPT !.raw = "NL"]
              /\ UNCHANGED result
    /\ UNCHANGED <<text, op, label, value, record, records, hist, harness>>

\* parse_record on the ParseOk of parse_field: insert the field; after TAB
\* call parse_field again, otherwise return the record with the delimiter.
ParseRecordInsert ==
    /\ pc = "ret"
    /\ op \in {"read_ltsv", "each_ltsv_record"}
    /\ record' = insert(record, label, value)
    /\ hist' = Append(hist, FieldHist(label, value, mark,
                 IF op = "read_ltsv" THEN Len(records) + 1
                                     ELSE Len(seen) + 1))
    /\ IF delim = "TAB"
         THEN pc' = "skip" /\ mark' = [NoMark EXCEPT !.entry = At]
         ELSE pc' = "rec" /\ UNCHANGED mark
    /\ UNCHANGED <<reader, op, cur, label, value, delim, records, result,
                   harness>>

\* parse_ltsv on the ParseOk of parse_record: push the record; on EOF leave
\* the loop, and read_ltsv returns the records.
ParseLtsvPush ==
    /\ pc = "rec"
    /\ op = "read_ltsv"
    /\ records' = Append(records, record)
    /\ IF delim = "EOF"
         THEN pc' = "done" /\ doc' = Append(records, record)
         ELSE pc' = "top" /\ UNCHANGED doc
    /\ UNCHANGED <<reader, op, cur, label, value, delim, record, seen,
                   stopped, reason, history, harness>>

\* each_ltsv_record on the ParseOk of parse_record: if !f(&record) { break }
EachLtsvRecordVisit ==
    /\ pc = "rec"
    /\ op = "each_ltsv_record"
    /\ seen' = Append(seen, record)
    /\ \E go \in BOOLEAN :
         /\ stopped' = ~go
         /\ pc' = IF go THEN "top" ELSE "done"
    /\ UNCHANGED <<reader, op, parser, doc, reason, history, harness>>

\* each_ltsv_field on the ParseOk of parse_field: if !f(&field) { break }
EachLtsvFieldVisit ==
    /\ pc = "ret"
    /\ op = "each_ltsv_field"
    /\ seen' = Append(seen, <<label, value>>)
    /\ hist' = Append(hist, FieldHist(label, value, mark, 0))
    /\ \E go \in BOOLEAN :
         /\ stopped' = ~go
         /\ pc' = IF go THEN "top" ELSE "done"
    /\ UNCHANGED <<reader, op, parser, doc, reason, mark, harness>>

\* ------------------------------------------------------------ harness
\* read_ltsv has returned a document.
Returned == op = "read_ltsv" /\ pc = "done"

\* wr.write_ltsv(records) on the document read_ltsv returned.
WriteLtsv ==
    /\ Returned
    /\ trips < MaxTrips
    /\ out' \in write_ltsv(doc)
    /\ op' = "write_ltsv"
    /\ UNCHANGED <<reader, pc, parser, result, history, prev, how, trips,
                   last>>

\* A new reader over the text t; the document just read is kept in prev,
\* how the reading ended and the fields it parsed in last.
Again(t, h) ==
    /\ text' = t
    /\ prev' = doc
    /\ last' = [end |-> pc, reason |-> reason, fields |-> Fields]
    /\ how' = h
    /\ trips' = trips + 1
    /\ pos' = 0
    /\ calls' = 0
    /\ op' = "idle"
    /\ pc' = "idle"
    /\ cur' = EOS
    /\ label' = <<>>
    /\ value' = <<>>
    /\ delim' = ""
    /\ record' = <<>>
    /\ records' = <<>>
    /\ doc' = <<>>
    /\ seen' = <<>>
    /\ stopped' = FALSE
    /\ reason' = ""
    /\ mark' = NoMark
    /\ hist' = <<>>
    /\ UNCHANGED out

\* io::with_str_reader over the text just written.
Reopen ==
    /\ op = "write_ltsv"
    /\ Again(out, "written")

\* The same text with one LF after it.
ReopenWithLF ==
    /\ Returned
    /\ trips < MaxTrips
    /\ Again(text \o <<LF>>,
             IF hist[Len(hist)].raw = "TAB" THEN "lf_after_tab" ELSE "lf")

\* The indices of the LF bytes that ended a value, by the history.
EndingLF == {hist[i].vstop : i \in {j \in 1..Len(hist) : hist[j].raw = "NL"}}
              \cap {i \in 1..Len(text) : text[i] = LF}

RECURSIVE WithCRLF(_, _, _)
WithCRLF(t, at, i) ==
    IF i > Len(t) THEN <<>>
    ELSE (IF i \in at THEN <<CR, LF>> ELSE <<t[i]>>) \o WithCRLF(t, at, i + 1)

\* The same text with CR LF for every LF that ended a value.
ReopenWithCRLF ==
    /\ Returned
    /\ trips < MaxTrips
    /\ EndingLF # {}
    /\ Again(WithCRLF(text, EndingLF, 1), "crlf")

\* io::with_str_reader over the same text once more, after read_ltsv has
\* returned or ended in fail!.
ReopenSame ==
    /\ op = "read_ltsv"
    /\ pc \in {"done", "failed"}
    /\ trips < MaxTrips
    /\ Again(text, "same")

Next ==
    \/ ReadLtsv
    \/ EachLtsvRecord
    \/ EachLtsvField
    \/ ParseLtsvLoop
    \/ EachLtsvRecordLoop
    \/ EachLtsvFieldLoop
    \/ SkipWhitespaces
    \/ ParseFieldLabel
    \/ ParseFieldValue
    \/ ConsumeForwardLF
    \/ ParseRecordInsert
    \/ ParseLtsvPush
    \/ EachLtsvRecordVisit
    \/ EachLtsvFieldVisit
    \/ WriteLtsv
    \/ Reopen
    \/ ReopenWithLF
    \/ ReopenWithCRLF
    \/ ReopenSame

Spec == Init /\ [][Next]_vars

\* The steps of read_ltsv once it is called: its body and the parser under
\* it.
Run ==
    \/ ParseLtsvLoop
    \/ SkipWhitespaces
    \/ ParseFieldLabel
    \/ ParseFieldValue
    \/ ConsumeForwardLF
    \/ ParseRecordInsert
    \/ ParseLtsvPush

\* read_ltsv on every text, and nothing else.
ReadNext ==
    \/ ReadLtsv
    \/ Run

\* The code is sequential: a read_ltsv that was called and can take its next
\* step takes it.
FairSpec == Init /\ [][ReadNext]_vars /\ WF_vars(Run)

\* ------------------------------------------------------------ claims
\* The bytes of [A-Za-z0-9_.-].
LabelCharset ==
    (48..57) \cup (65..90) \cup (97..122) \cup {95, 46, 45}

\* The pairs of a record, the order LinearMap keeps them in put aside.
Pairs(rec) == {rec[i] : i \in 1..Len(rec)}

\* Two documents are equal: as many records, in the same order, each with
\* the same pairs.
SameDocument(d, e) ==
    /\ Len(d) = Len(e)
    /\ \A i \in 1..Len(d) : Pairs(d[i]) = Pairs(e[i])

\* The run of an entry point is over (it returned or ended in fail!).
Over == pc \in {"done", "failed"}

\* C1: round trip.  read_ltsv on the bytes write_ltsv emitted for a document
\* that read_ltsv returned succeeds and returns an equal document, whatever
\* order the writer took the fields of each record in.
C1_RoundTrip ==
    (how = "written" /\ op = "read_ltsv") =>
        /\ pc # "failed"
        /\ pc = "done" => SameDocument(doc, prev)

\* C1 happens: a written document was read again, one of its records has two
\* fields and came back with its fields in another order.
C1_Witness ==
    /\ how = "written" /\ Returned
    /\ \E i \in 1..Len(doc) : Len(doc[i]) = 2 /\ doc[i] # prev[i]

\* The number of the line the byte at index i stands on: lines end with LF.
LineOf(i) == 1 + Cardinality({j \in 1..(i - 1) : j <= Len(text) /\ text[j] = LF})

\* The lines that hold a field: every field has its ':' on its line.
FieldLines == {LineOf(i) : i \in {j \in 1..Len(text) : text[j] = COLON}}

\* The place of line n among the lines that hold a field.
RankOfLine(n) == Cardinality({m \in FieldLines : m <= n})

\* C2: one record per line, in line order.  The document read_ltsv returns
\* has one record for each line that holds a field, and every field of the
\* i-th record stands on the i-th such line.
C2_OneRecordPerLine ==
    Returned =>
        /\ Len(doc) = Cardinality(FieldLines)
        /\ \A j \in 1..Len(hist) :
             hist[j].rec = RankOfLine(LineOf(hist[j].lstart))

\* The index of the last byte of the terminator of a parsed field: the
\* LF of a CR LF, Len(text) when the value ran to the end of the stream.
TermEnd(h) ==
    IF h.vstop > Len(text) THEN Len(text)
    ELSE IF text[h.vstop] = CR THEN h.vstop + 1
    ELSE h.vstop

\* The byte at index i is part of a parsed field (label, ':', value or
\* terminator).
InField(i) == \E j \in 1..Len(hist) : hist[j].lstart <= i /\ i <= TermEnd(hist[j])

\* C3: no partial document.  When read_ltsv ends in fail! it has returned no
\* record, however many it had parsed; and when it returns a document the
\* whole input was read, holds no NUL, and every byte of it is part of a
\* parsed field or is whitespace between fields: nothing was passed over.
C3_NoPartialDocument ==
    op = "read_ltsv" =>
        /\ pc = "failed" => doc = <<>>
        /\ pc = "done" =>
             /\ pos = Len(text) /\ cur = EOS
             /\ \A i \in 1..Len(text) :
                  /\ text[i] # NUL
                  /\ InField(i) \/ is_whitespace(text[i])

\* C3 happens: read_ltsv failed after it had parsed a whole record.
C3_Witness ==
    /\ op = "read_ltsv" /\ pc = "failed"
    /\ Len(records) >= 1
    /\ doc = <<>>

\* The last field handed to the visitor, and whether the visitor broke the
\* loop of each_ltsv_field or each_ltsv_record there.
Broken == pc = "done" /\ stopped /\ op \in {"each_ltsv_field", "each_ltsv_record"}

LastField == hist[Len(hist)]

\* The index of the first byte after index i that is no whitespace,
\* Len(text) if there is none.
RECURSIVE NextBlack(_)
NextBlack(i) ==
    IF i >= Len(text) THEN Len(text)
    ELSE IF is_whitespace(text[i + 1]) THEN NextBlack(i + 1)
    ELSE i + 1

\* C4 as claimed: when the visitor stops, no byte of a later field has been
\* read: nothing that was read after the terminator of the last field handed
\* over is a byte of a label.
C4_NothingFurtherRead ==
    Broken => \A i \in (TermEnd(LastField) + 1)..pos : text[i] \notin LabelCharset

\* C4 as amended: when the visitor stops, the reader stands exactly one byte
\* after the terminator of the last field handed over if that was a TAB,
\* and otherwise on the first byte after it that is no whitespace; that one
\* byte is in cur and is gone from the reader.
C4_OneByteAhead ==
    Broken =>
        pos = IF LastField.raw = "TAB"
                THEN (IF TermEnd(LastField) < Len(text)
                        THEN TermEnd(LastField) + 1 ELSE Len(text))
                ELSE NextBlack(TermEnd(LastField))

\* C4 happens: the visitor stopped while a field "a:" was left, and the
\* first byte of its label is already taken from the reader.
C4_Witness ==
    /\ Broken
    /\ cur = LA
    /\ pos < Len(text)
    /\ text[pos + 1] = COLON

\* C5: read_ltsv on an empty input returns a document with no record.
C5_EmptyInput ==
    (text = <<>> /\ op = "read_ltsv" /\ Over) => (pc = "done" /\ doc = <<>>)

\* C6: no whitespace is skipped after a TAB.  The label scan of the field
\* that follows a TAB-terminated field starts on the byte right after the
\* TAB.
C6_NoSkipAfterTab ==
    \A j \in 2..Len(hist) :
        (hist[j - 1].raw = "TAB" /\ hist[j].rec = hist[j - 1].rec)
            => hist[j].lstart = hist[j - 1].vstop + 1

\* The value scan of the field in hand met a CR at index i.
MetCR(i) == i >= 1 /\ i <= Len(text) /\ text[i] = CR

\* The CR at index i has no LF after it.
Dangling(i) == i = Len(text) \/ text[i + 1] # LF

\* C7: CR LF.  A text read again with CR LF for each LF that ended a value
\* gives the same document; a value scan that meets a CR with no LF after
\* it ends in the "CR without LF" error, and only such a scan does.
C7_CRLF ==
    /\ (how = "crlf" /\ op = "read_ltsv") =>
          /\ pc # "failed"
          /\ pc = "done" => doc = prev
    /\ \A j \in 1..Len(hist) :
          MetCR(hist[j].vstop) => ~Dangling(hist[j].vstop)
    /\ (pc \notin {"value", "cr"} /\ MetCR(mark.vstop) /\ Dangling(mark.vstop))
          => (pc = "failed" /\ reason = "CR detected, but not provided with LF")
    /\ reason = "CR detected, but not provided with LF"
          => (pc = "failed" /\ MetCR(mark.vstop) /\ Dangling(mark.vstop))

\* C7 happens: a document was read again from the text with CR LF for the
\* LF that ended its values.
C7_Witness ==
    /\ how = "crlf" /\ Returned
    /\ Len(doc) >= 1
    /\ \E i \in 1..Len(text) : text[i] = CR

\* C8 as claimed: a text that read_ltsv accepts is accepted with one LF
\* after it, and gives the same document.
C8_FinalNewlineOptional ==
    (how \in {"lf", "lf_after_tab"} /\ op = "read_ltsv") =>
        /\ pc # "failed"
        /\ pc = "done" => doc = prev

\* C8 as amended: that holds when the last field of the text was not ended
\* by a TAB; when it was (a TAB as the last byte of the text completes the
\* record at end of stream), the text with an LF after it is refused.
C8_FinalNewlineUnlessTab ==
    /\ (how = "lf" /\ op = "read_ltsv") =>
          /\ pc # "failed"
          /\ pc = "done" => doc = prev
    /\ (how = "lf_after_tab" /\ op = "read_ltsv") => pc # "done"

\* C8 happens: a text without a final newline was read again with one.
C8_Witness ==
    /\ how = "lf" /\ Returned
    /\ Len(text) >= 2
    /\ text[Len(text) - 1] \notin {LF, CR, HT, SP}

\* The fields parse_record read for record n, in the order it read them.
FieldsOf(n) == {j \in 1..Len(hist) : hist[j].rec = n}

\* The value of the last of them that carries the label l.
LastValue(n, l) ==
    hist[CHOOSE j \in FieldsOf(n) :
           /\ hist[j].label = l
           /\ \A k \in FieldsOf(n) : hist[k].label = l => k <= j].value

\* What parse_record must have built from the fields of record n.
LastWins(n) == {<<hist[j].label, LastValue(n, hist[j].label)>> : j \in FieldsOf(n)}

\* No label twice in the record.
UniqueLabels(rec) ==
    \A i, j \in 1..Len(rec) : rec[i][1] = rec[j][1] => i = j

\* The records parse_record has returned so far, by number.
Produced ==
    IF op = "read_ltsv" THEN records
    ELSE IF op = "each_ltsv_record" THEN seen
    ELSE <<>>

\* C9: labels are unique within a record and the last one wins.  Every record
\* parse_record returns holds each label of the fields it read for it once,
\* with the value of the last of those fields that carries the label.
C9_LastWins ==
    /\ \A n \in 1..Len(Produced) :
         /\ UniqueLabels(Produced[n])
         /\ Pairs(Produced[n]) = LastWins(n)
    /\ pc = "rec" => (UniqueLabels(record) /\ Pairs(record) = LastWins(Len(Produced) + 1))

\* C9 happens: a record was returned for which two fields with the same
\* label and different values were read.
C9_Witness ==
    /\ Len(Produced) >= 1
    /\ \E j, k \in FieldsOf(1) :
         /\ j < k
         /\ hist[j].label = hist[k].label
         /\ hist[j].value # hist[k].value

WellFormed(l, v) ==
    /\ Len(l) >= 1
    /\ \A i \in 1..Len(l) : l[i] \in LabelCharset
    /\ \A i \in 1..Len(v) : v[i] \notin {0, 9, 10, 13}

\* C10: charset invariant.  Every field parse_field produces, under each of
\* the three entry points, has a label of at least one byte, all of
\* [A-Za-z0-9_.-], and a value without NUL, TAB, LF and CR; so has every
\* field handed to a visitor and every field of a record.
C10_Charset ==
    /\ \A j \in 1..Len(hist) : WellFormed(hist[j].label, hist[j].value)
    /\ pc = "ret" => WellFormed(label, value)
    /\ op = "each_ltsv_field" =>
         \A j \in 1..Len(seen) : WellFormed(seen[j][1], seen[j][2])
    /\ \A n \in 1..Len(Produced) : \A i \in 1..Len(Produced[n]) :
         WellFormed(Produced[n][i][1], Produced[n][i][2])
    /\ \A n \in 1..Len(doc) : \A i \in 1..Len(doc[n]) :
         WellFormed(doc[n][i][1], doc[n][i][2])

\* C10 happens: parse_field has produced a field whose value holds a ':' and
\* a space, under each_ltsv_field.
C10_Witness ==
    /\ op = "each_ltsv_field" /\ pc = "done"
    /\ \E j \in 1..Len(seen) : seen[j][2] = <<COLON, SP>>

\* The run of an entry point whose visitor never stops, on a text that
\* read_ltsv has read before.
SameText(name) == how = "same" /\ op = name /\ ~stopped

\* The field of history entry h as it stands in the text: the label from
\* where its scan started up to the ':', the value from there up to the
\* terminator.
Spelled(h) ==
    <<SubSeq(text, h.lstart, h.lstart + Len(h.label) - 1),
      SubSeq(text, h.lstart + Len(h.label) + 1, h.vstop - 1)>>

\* C11: each_ltsv_field visits every field once, in input order, across
\* lines.  On a text on which read_ltsv succeeds, each_ltsv_field with a
\* visitor that never stops does not fail and is called with exactly the
\* fields read_ltsv parsed, as many and in the same order; each is a
\* label:value of the text, each starts after the one before it ended, and
\* no byte of the text but whitespace lies outside them.
C11_EveryFieldOnce ==
    (SameText("each_ltsv_field") /\ last.end = "done") =>
        /\ pc # "failed"
        /\ pc = "done" =>
             /\ seen = last.fields
             /\ Len(hist) = Len(seen)
             /\ \A j \in 1..Len(hist) :
                  /\ seen[j] = Spelled(hist[j])
                  /\ text[hist[j].lstart + Len(hist[j].label)] = COLON
                  /\ j > 1 => hist[j].lstart > TermEnd(hist[j - 1])
             /\ \A i \in 1..Len(text) : InField(i) \/ is_whitespace(text[i])

\* C11 happens: each_ltsv_field went through a text read_ltsv accepts and
\* visited two fields that stand on different lines.
C11_Witness ==
    /\ SameText("each_ltsv_field") /\ last.end = "done"
    /\ pc = "done"
    /\ Len(seen) >= 2
    /\ LineOf(hist[2].lstart) > LineOf(hist[1].lstart)

\* The failed parse_field had passed the ':' of its field: the byte after
\* the label it scanned is a ':' (the label scan fails on a ':' only when
\* the label is empty).
PastColon ==
    /\ Len(label) > 0
    /\ mark.lstart + Len(label) <= Len(text)
    /\ text[mark.lstart + Len(label)] = COLON

\* The index of the byte a failed parse_field could not accept: the first
\* byte after the bytes it had scanned (Len(text) + 1: the end of the stream).
ViolationAt ==
    IF PastColon THEN mark.lstart + Len(label) + 1 + Len(value)
    ELSE mark.lstart + Len(label)

\* C12: when each_ltsv_record ends in a parse error, no byte taken from the
\* reader stands on a line after the line of the violation: nothing after
\* the LF that ends that line has been read.
C12_NotPastBadLine ==
    (op = "each_ltsv_record" /\ pc = "failed") =>
        \A i \in 1..pos : LineOf(i) <= LineOf(ViolationAt)

\* C12 happens: each_ltsv_record failed on a line that ends with an LF, and
\* there are bytes after that LF.
C12_Witness ==
    /\ op = "each_ltsv_record" /\ pc = "failed"
    /\ ViolationAt <= Len(text)
    /\ \E i \in (pos + 1)..(Len(text) - 1) : text[i] = LF

\* The five kinds of violation.
Kinds == {"EmptyLabel", "InvalidLabelByte", "UnterminatedLabel",
          "InvalidValueByte", "DanglingCarriageReturn"}

\* The kind of the violation a failed parse_field met, by the text: what
\* the byte it could not accept is, and whether it stands before or after
\* the ':' of the field.
Kind ==
    IF PastColon
      THEN (IF ViolationAt <= Len(text) /\ text[ViolationAt] = CR
              THEN "DanglingCarriageReturn" ELSE "InvalidValueByte")
    ELSE IF ViolationAt > Len(text) THEN "UnterminatedLabel"
    ELSE IF text[ViolationAt] = COLON THEN "EmptyLabel"
    ELSE "InvalidLabelByte"

\* The reason the ParseError of each kind is made with, in the arms of
\* parse_field_label and parse_field_value and in consume_forward_LF.
Message(k) ==
    CASE k = "EmptyLabel"             -> "label is empty"
      [] k = "InvalidLabelByte"       -> "invalid byte detected"
      [] k = "UnterminatedLabel"      -> "EOF while parsing field label"
      [] k = "InvalidValueByte"       -> "invalid byte detected"
      [] k = "DanglingCarriageReturn" -> "CR detected, but not provided with LF"

\* What holds of the code: every failure reports the reason of its kind.
ReasonOfKind == pc = "failed" => reason = Message(Kind)

\* C13: every parse failure carries exactly one of five distinguishable
\* kinds of error, the kind of its violation: what a failure reports is what
\* is reported for its kind and for no other kind, so an invalid byte in a
\* label and one in a value are told apart; a ':' before any label byte gives
\* the empty-label error and the input "a" the end-of-stream-in-label error.
C13_FiveKinds ==
    /\ ReasonOfKind
    /\ pc = "failed" =>
         /\ \A k \in Kinds : Message(k) = reason => k = Kind
         /\ (Len(text) >= 1 /\ text[1] = COLON) => Kind = "EmptyLabel"
         /\ (text = <<LA>>) => Kind = "UnterminatedLabel"

\* How many bytes b the text s holds.
Count(s, b) == Cardinality({i \in 1..Len(s) : s[i] = b})

\* The index of the n-th byte b of s; 0 for n = 0, Len(s) + 1 if s holds
\* fewer.
Nth(s, b, n) ==
    IF n = 0 THEN 0
    ELSE IF n > Count(s, b) THEN Len(s) + 1
    ELSE CHOOSE i \in 1..Len(s) : s[i] = b /\ Count(SubSeq(s, 1, i), b) = n

\* The n-th of the pieces that the bytes b cut s into.
Piece(s, b, n) == SubSeq(s, Nth(s, b, n - 1) + 1, Nth(s, b, n) - 1)

\* The items 'label:value' of the record rec.
Items(rec) == {rec[i][1] \o <<COLON>> \o rec[i][2] : i \in 1..Len(rec)}

\* C14: the format of the writer.  What write_ltsv has written for a
\* document of n records ends with an LF and holds n of them, one after each
\* record, the last too; the n lines they end are the records in document
\* order; the line of a record of k fields holds k - 1 TABs, none at its
\* start, none at its end, and the k pieces they cut it into are the k items
\* 'label:value' of the record.
C14_WriterFormat ==
    op = "write_ltsv" =>
        /\ Count(out, LF) = Len(doc)
        /\ Len(doc) >= 1 => out[Len(out)] = LF
        /\ \A n \in 1..Len(doc) :
             /\ Count(Piece(out, LF, n), HT) = Len(doc[n]) - 1
             /\ Piece(out, LF, n)[1] # HT
             /\ Piece(out, LF, n)[Len(Piece(out, LF, n))] # HT
             /\ {Piece(Piece(out, LF, n), HT, m) : m \in 1..Len(doc[n])}
                  = Items(doc[n])
             /\ \A m \in 1..Len(doc[n]) : Piece(Piece(out, LF, n), HT, m) # <<>>

\* C14 happens: a record of two fields was written.
C14_Witness ==
    /\ op = "write_ltsv"
    /\ \E n \in 1..Len(doc) : Len(doc[n]) = 2

\* An entry point is running on the reader or has ended on it.
Opened == op \in {"read_ltsv", "each_ltsv_record", "each_ltsv_field"}

\* How many bytes of the text the grammar has accepted when parse_field is
\* scanning a field or has failed on one: the bytes before the field, and
\* of the field its label, its ':', its value, the CR of a failed CR LF.
Committed ==
    IF pc = "label" THEN (mark.lstart - 1) + Len(label)
    ELSE IF pc \in {"value", "cr"} THEN mark.lstart + Len(label) + Len(value)
    ELSE IF ~PastColon THEN (mark.lstart - 1) + Len(label)
    ELSE IF Kind = "InvalidValueByte" THEN mark.lstart + Len(label) + Len(value)
    ELSE mark.lstart + Len(label) + Len(value) + 1

\* The byte at index i is accepted: it is part of a field parsed, or of the
\* field in hand, or it is whitespace between fields.
Accepted(i) ==
    \/ InField(i)
    \/ mark.lstart # 0 /\ mark.lstart <= i
    \/ is_whitespace(text[i])

\* C15: the lookahead discipline.  While the parser is not at the end of
\* the stream, cur holds the last byte taken from the reader, every byte
\* taken before it is accepted, and the bytes taken are one more than the
\* bytes the grammar has accepted; read_byte is called once for each byte
\* taken and, at the end of the stream, exactly once more (the call that
\* returned -1): with -1 in cur, neither eof nor bump calls it again.
C15_Lookahead ==
    Opened =>
        /\ cur # EOS =>
             /\ pos >= 1 /\ cur = text[pos]
             /\ \A i \in 1..(pos - 1) : Accepted(i)
             /\ pc \in {"label", "value", "cr", "failed"} => pos = Committed + 1
             /\ calls = pos
        /\ cur = EOS =>
             /\ pos = Len(text)
             /\ calls = Len(text) + 1

\* C15 happens: the parser went on after it had met the end of the stream
\* (it returned a field that the end of the stream ended, and the record).
C15_Witness ==
    /\ Opened /\ cur = EOS
    /\ pc = "rec"
    /\ mark.raw = "EOF"

\* C16: the access modes agree.  On a text that is not empty,
\* each_ltsv_record with a visitor that never stops ends in fail! exactly
\* when read_ltsv does, and when it returns it has called the visitor with
\* exactly the records read_ltsv returns, in the same order.
C16_ModesAgree ==
    (SameText("each_ltsv_record") /\ Over /\ text # <<>>) =>
        /\ pc = "failed" <=> last.end = "failed"
        /\ pc = "done" => seen = prev

\* C16 happens: each_ltsv_record went through a text of two records that
\* read_ltsv has read.
C16_Witness ==
    /\ SameText("each_ltsv_record") /\ pc = "done"
    /\ Len(seen) = 2
    /\ last.end = "done"

\* The fields parse_record has read for the record in hand.
InHand == FieldsOf(Len(Produced) + 1)

\* The tag parse_field returned history entry j with: EOF if the end of the
\* stream followed its terminator (and the whitespace after it, unless the
\* terminator was a TAB), otherwise the tag of its terminator.
TagOf(j) ==
    IF hist[j].raw = "TAB"
      THEN (IF TermEnd(hist[j]) >= Len(text) THEN "EOF" ELSE "TAB")
    ELSE IF NextBlack(TermEnd(hist[j])) >= Len(text)
              /\ (Len(text) = TermEnd(hist[j]) \/ is_whitespace(text[Len(text)]))
      THEN "EOF"
    ELSE hist[j].raw

\* C17: the delimiter tag of parse_field.  When parse_field returns, the
\* terminator is consumed; after a TAB nothing more is, after another
\* terminator the whitespace that follows is; the tag is EOF exactly when
\* cur is then -1, otherwise the tag of the terminator.  parse_record goes
\* on after a field tagged TAB and returns after the first field tagged
\* otherwise, with that tag: a TAB right before the end of the stream
\* completes the record.
C17_DelimiterTag ==
    /\ pc = "ret" =>
         /\ mark.raw \in {"TAB", "NL", "EOF"}
         /\ delim = IF cur = EOS THEN "EOF" ELSE mark.raw
         /\ mark.raw = "TAB" =>
              pos = IF TermEnd(mark) < Len(text) THEN TermEnd(mark) + 1
                    ELSE Len(text)
         /\ mark.raw # "TAB" =>
              /\ ~is_whitespace(cur)
              /\ \A i \in (TermEnd(mark) + 1)..(At - 1) : is_whitespace(text[i])
    /\ (pc = "rec" /\ op \in {"read_ltsv", "each_ltsv_record"}) =>
         /\ delim \in {"NL", "EOF"}
         /\ InHand # {}
         /\ \A j \in InHand :
              IF j = Len(hist) THEN TagOf(j) = delim ELSE TagOf(j) = "TAB"

\* C17 happens: parse_record returned a record whose last field a TAB
\* ended, with the end of the stream right after the TAB.
C17_Witness ==
    /\ pc = "rec"
    /\ LastField.raw = "TAB"
    /\ delim = "EOF"

\* An iteration of the loop of parse_field_label, parse_field_value or
\* skip_whitespaces that does not leave the loop calls read_byte.
ScanAdvances ==
    (pc \in {"label", "value", "skip", "trail"} /\ pc' = pc) => calls' > calls

\* parse_ltsv leaves its loop on the record tagged EOF, and on no other.
StopsAtEOF ==
    (op = "read_ltsv" /\ pc = "rec") => (pc' = "done" <=> delim = "EOF")

\* C18: termination.  read_ltsv, once called, ends: it returns a document
\* or ends in fail!.  Every iteration of the label, value and whitespace
\* loops either leaves the loop or takes a byte from the source; when
\* parse_field returns, the source is further than where parse_field was
\* entered, so every iteration of the loops of parse_record and parse_ltsv
\* advances it too; and parse_ltsv stops at the first record tagged EOF.
C18_Termination ==
    /\ (op = "read_ltsv") ~> (op = "read_ltsv" /\ Over)
    /\ [][ScanAdvances /\ StopsAtEOF]_vars
    /\ [](pc = "ret" => At > mark.entry)
    /\ []((pc = "rec" /\ op = "read_ltsv") =>
            (InHand # {} /\ \A j \in InHand : At > hist[j].entry))

\* C18 happens: read_ltsv has returned after more than one turn of each of
\* its loops: two records, one of them of a label of two bytes.
C18_Witness ==
    /\ Returned
    /\ Len(doc) = 2
    /\ \E n \in 1..2 : Len(doc[n][1][1]) = 2

====
